---- MODULE Spec2Model ----
(***************************************************************************)
(* A model of the drm-rs device traits: the vertical-blank wait of         *)
(* drm::Device (src/src/lib.rs) and the mode-setting queries of            *)
(* drm::control::Device (src/src/control/mod.rs), running against a        *)
(* control channel (the ffi layer and the kernel behind it) that answers   *)
(* each request with a reply or with an errno.                             *)
(*                                                                         *)
(* A 32-bit word is modelled as the set of its set bit positions, a subset *)
(* of 0..31: & is intersection, | is union, ! is the complement in 0..31   *)
(* and << drops the bits shifted past position 31, as u32 does.            *)
(***************************************************************************)
EXTENDS Integers, Sequences, FiniteSets, TLC

VARIABLES dev, last, calls, invoked, held

vars == <<dev, last, calls, invoked, held>>

\* ------------------------------------------------------------------ bounds
MaxCalls == 2

\* --------------------------------------------------------------- u32 words
WordBits == 0 .. 31

BitAnd(a, b) == a \cap b

BitOr(a, b) == a \cup b

BitNot(a) == WordBits \ a

Shl(w, k) == {b + k : b \in w} \cap WordBits

RECURSIVE Pow2(_)
Pow2(n) == IF n = 0 THEN 1 ELSE 2 * Pow2(n - 1)

\* the word whose value is the natural number n (n < 2^31)
Bits(n) == {b \in 0 .. 30 : (n \div Pow2(b)) % 2 = 1}

\* --------------------------------------------- constants of the vblank ABI
DRM_VBLANK_HIGH_CRTC_SHIFT == 1

DRM_VBLANK_HIGH_CRTC_MASK == {1, 2, 3, 4, 5}      \* 0x0000003e

DRM_VBLANK_ABSOLUTE == {}                         \* 0x0

DRM_VBLANK_RELATIVE == {0}                        \* 0x1

EVENT == {26}                                     \* 0x04000000

NEXT_ON_MISS == {28}                              \* 0x10000000

\* WaitVblankFlags::bits(): the union of the flags in the set
FlagsBits(flags) == UNION flags

WaitVblankFlagSets == {{}, {EVENT}, {EVENT, NEXT_ON_MISS}}

\* ------------------------------------------------------------------ errors
Errnos == {"EACCES", "ENODEV"}

IoErrorFrom(errno) == [kind |-> "io::Error", errno |-> errno]

\* a variant that reclassifies every channel failure as one errno
SystemErrorFrom_Reclassified(errno) == [kind |-> "SystemError", errno |-> "EIO"]

SystemErrorFrom(errno) == [kind |-> "SystemError", errno |-> errno]

NoValue == [kind |-> "none"]

NoRequest == [kind |-> "none"]

\* ------------------------------------------------------ the vblank wait
NANOS_PER_SEC == 1000000000

\* std::time::Duration::new: nanoseconds beyond one second carry over
DurationNew(secs, nanos) ==
    [secs |-> secs + nanos \div NANOS_PER_SEC, nanos |-> nanos % NANOS_PER_SEC]

None == [some |-> FALSE]

Some(x) == [some |-> TRUE, val |-> x]

\* a variant that takes zero seconds alone for the sentinel
DecodeTime_ZeroSeconds(tval_sec, tval_usec) ==
    IF tval_sec = 0
    THEN None
    ELSE Some(DurationNew(tval_sec, tval_usec * 1000))

\* lib.rs:227-230. sec as u64 and (usec * 1000) as u32 are exact for the
\* non-negative values below 2^31 that the replies of this model carry.
DecodeTime(tval_sec, tval_usec) ==
    IF tval_sec = 0 /\ tval_usec = 0
    THEN None
    ELSE Some(DurationNew(tval_sec, tval_usec * 1000))

\* lib.rs:207
HighCrtc(crtc_index) == Shl(crtc_index, DRM_VBLANK_HIGH_CRTC_SHIFT)

\* lib.rs:208, the condition of the early return
RejectsCrtc(crtc_index) ==
    BitAnd(HighCrtc(crtc_index), DRM_VBLANK_HIGH_CRTC_MASK) # {}

\* lib.rs:212-219
WaitType(target) ==
    IF target.kind = "Absolute" THEN DRM_VBLANK_ABSOLUTE ELSE DRM_VBLANK_RELATIVE

\* lib.rs:221
TypeWord(target, flags, crtc_index) ==
    BitOr(BitOr(WaitType(target), HighCrtc(crtc_index)), FlagsBits(flags))

\* lib.rs:222, the request handed to drm_ffi::wait_vblank
VblankRequest(target, flags, crtc_index, user_data) ==
    [kind |-> "wait_vblank",
     type_ |-> TypeWord(target, flags, crtc_index),
     sequence |-> target.n,
     signal |-> user_data]

\* a variant that compares the reply with the unmasked type word
ReplyTypeMatches_Unmasked(target, type_, reply) == type_ = reply.type_

\* lib.rs:225, the assert_eq! on the reply
ReplyTypeMatches(target, type_, reply) ==
    BitAnd(type_, BitNot(WaitType(target))) = reply.type_

\* lib.rs:232-235
WaitVblankReply(reply) ==
    [frame |-> reply.sequence, time |-> DecodeTime(reply.tval_sec, reply.tval_usec)]

\* inputs of wait_vblank
WaitVblankTargets == {[kind |-> "Absolute", n |-> 1000], [kind |-> "Relative", n |-> 1]}

\* 0, 1, 31, 32, 0x02000000, 0x80000000
CrtcIndices == {Bits(0), Bits(1), Bits(31), Bits(32), {25}, {31}}

UserData == {0, 7}

\* replies the control channel may give to a vblank request: the type word
\* with the direction bit cleared (always absolute) or set, or with every
\* bit cleared, the sequence reached, and a timestamp in seconds and
\* microseconds
VblankReply(type_, sequence, tval_sec, tval_usec) ==
    [type_ |-> type_, sequence |-> sequence,
     tval_sec |-> tval_sec, tval_usec |-> tval_usec]

Timestamps == {<<0, 0>>, <<0, 500>>, <<1, 0>>, <<1, 500>>, <<2, 999999>>}

VblankReplies(req) ==
    {VblankReply(req.type_ \ DRM_VBLANK_RELATIVE, req.sequence, t[1], t[2]) :
        t \in Timestamps}
    \cup {VblankReply(req.type_ \ DRM_VBLANK_RELATIVE, req.sequence + 1, 0, 0)}
    \cup {VblankReply(req.type_ \cup DRM_VBLANK_RELATIVE, req.sequence, t[1], t[2]) :
        t \in {<<0, 0>>, <<1, 500>>}}
    \cup {VblankReply(DRM_VBLANK_ABSOLUTE, req.sequence, 0, 0)}

NoReply == [kind |-> "none"]

\* what the control channel answered: an errno or a reply body
ErrReply(errno) == [kind |-> "err", errno |-> errno]

OkReply(body) == [kind |-> "ok", body |-> body]

\* lib.rs:197-236
WaitVblank(target, flags, crtc_index, user_data) ==
    LET args == [target |-> target, flags |-> flags,
                 crtc_index |-> crtc_index, user_data |-> user_data]
        req == VblankRequest(target, flags, crtc_index, user_data)
    IN  /\ calls < MaxCalls
        /\ calls' = calls + 1
        /\ UNCHANGED <<dev, held>>
        /\ IF RejectsCrtc(crtc_index)
           THEN /\ invoked' = invoked
                /\ last' = [op |-> "wait_vblank", args |-> args, reqs |-> 0,
                            request |-> NoRequest, reply |-> NoReply,
                            outcome |-> "err", err |-> IoErrorFrom("EINVAL"),
                            value |-> NoValue]
           ELSE /\ invoked' = invoked + 1
                /\ \/ \E e \in Errnos :
                        last' = [op |-> "wait_vblank", args |-> args, reqs |-> 1,
                                 request |-> req,
                                 reply |-> ErrReply(e),
                                 outcome |-> "err", err |-> IoErrorFrom(e),
                                 value |-> NoValue]
                   \/ \E reply \in VblankReplies(req) :
                        last' = [op |-> "wait_vblank", args |-> args, reqs |-> 1,
                                 request |-> req, reply |-> OkReply(reply),
                                 outcome |-> IF ReplyTypeMatches(target, req.type_, reply)
                                             THEN "ok" ELSE "panic",
                                 err |-> NoValue,
                                 value |-> IF ReplyTypeMatches(target, req.type_, reply)
                                           THEN WaitVblankReply(reply) ELSE NoValue]

WaitVblankCall ==
    \E target \in WaitVblankTargets, flags \in WaitVblankFlagSets,
       crtc_index \in CrtcIndices, user_data \in UserData :
        WaitVblank(target, flags, crtc_index, user_data)

\* WaitVblankReply::time(), lib.rs:415-417
Time(r) == r.time

\* WaitVblankReply::frame(), lib.rs:409-411
Frame(r) == r.frame

\* ------------------------------------------------------------ the device
\* Capacity of every receive array of control/mod.rs ([0u32; 32])
Capacity == 32

Min(a, b) == IF a < b THEN a ELSE b

\* n handles of a kind, counted up from base + 1 or down from base + n
Ascending(base, n) == [i \in 1 .. n |-> base + i]

Descending(base, n) == [i \in 1 .. n |-> base + n + 1 - i]

DevIds == {"scenario", "large", "skewed", "empty"}

\* What the device holds in each of its configurations: the handle lists of
\* the five resource kinds, the mode size ranges, and the state of its
\* connectors (the same for every connector of one configuration).
Device(d) ==
    CASE d = "scenario" ->
            [fbs |-> <<>>, crtcs |-> Ascending(200, 3),
             connectors |-> Ascending(300, 2), encoders |-> Ascending(400, 1),
             planes |-> Ascending(500, 2),
             min_width |-> 0, max_width |-> 4096,
             min_height |-> 0, max_height |-> 2160,
             connector_type |-> 11, connector_type_id |-> 1, connection |-> 1,
             mm_width |-> 600, mm_height |-> 340, encoder_id |-> 0,
             conn_encoders |-> Ascending(400, 1),
             props |-> Ascending(600, 3), prop_values |-> <<10, 20, 30>>,
             modes |-> <<[clock |-> 148500], [clock |-> 74250]>>]
      [] d = "large" ->
            [fbs |-> Ascending(100, 33), crtcs |-> Descending(200, 32),
             connectors |-> Ascending(300, 40), encoders |-> Descending(400, 1),
             planes |-> Descending(500, 40),
             min_width |-> 8, max_width |-> 8192,
             min_height |-> 8, max_height |-> 8192,
             connector_type |-> 10, connector_type_id |-> 2, connection |-> 2,
             mm_width |-> 0, mm_height |-> 0, encoder_id |-> 7,
             conn_encoders |-> Ascending(400, 33),
             props |-> Ascending(600, 40), prop_values |-> Ascending(0, 40),
             modes |-> [i \in 1 .. 33 |-> [clock |-> 1000 * i]]]
      [] d = "skewed" ->
            [fbs |-> Descending(100, 2), crtcs |-> Ascending(200, 1),
             connectors |-> Descending(300, 2), encoders |-> Ascending(400, 3),
             planes |-> <<>>,
             min_width |-> 0, max_width |-> 4096,
             min_height |-> 0, max_height |-> 2160,
             connector_type |-> 1, connector_type_id |-> 1, connection |-> 3,
             mm_width |-> 300, mm_height |-> 200, encoder_id |-> 401,
             conn_encoders |-> Ascending(400, 3),
             props |-> Ascending(600, 2), prop_values |-> <<10>>,
             modes |-> <<>>]
      [] OTHER ->
            [fbs |-> <<>>, crtcs |-> <<>>, connectors |-> <<>>,
             encoders |-> <<>>, planes |-> <<>>,
             min_width |-> 0, max_width |-> 0,
             min_height |-> 0, max_height |-> 0,
             connector_type |-> 0, connector_type_id |-> 0, connection |-> 3,
             mm_width |-> 0, mm_height |-> 0, encoder_id |-> 0,
             conn_encoders |-> <<>>, props |-> <<>>, prop_values |-> <<>>,
             modes |-> <<>>]

Range(s) == {s[i] : i \in DOMAIN s}

\* ------------------------------------------------- the control channel
\* the zeroed receive array after the channel wrote the reported entries
\* into it: no more than the array holds
Fill(list, zero) ==
    [i \in 1 .. Capacity |-> IF i <= Len(list) THEN list[i] ELSE zero]

\* the length of the receive slice once the channel has shrunk it to the
\* count it reported, which the slice's own length limits
Shrunk(list) == Min(Len(list), Capacity)

\* ffi::mode::get_resources on a device in configuration d
GetResourcesReply(d) ==
    LET D == Device(d)
    IN  [ffi_card |-> [min_width |-> D.min_width, max_width |-> D.max_width,
                       min_height |-> D.min_height, max_height |-> D.max_height,
                       count_fbs |-> Len(D.fbs), count_crtcs |-> Len(D.crtcs),
                       count_connectors |-> Len(D.connectors),
                       count_encoders |-> Len(D.encoders)],
         fbs |-> Fill(D.fbs, 0), fb_len |-> Shrunk(D.fbs),
         crtcs |-> Fill(D.crtcs, 0), crtc_len |-> Shrunk(D.crtcs),
         connectors |-> Fill(D.connectors, 0), conn_len |-> Shrunk(D.connectors),
         encoders |-> Fill(D.encoders, 0), enc_len |-> Shrunk(D.encoders)]

\* ffi::mode::get_plane_resources
GetPlaneResourcesReply(d) ==
    LET D == Device(d)
    IN  [planes |-> Fill(D.planes, 0), len |-> Shrunk(D.planes)]

DefaultModeinfo == [clock |-> 0]

\* ffi::mode::get_connector for a connector the device has
GetConnectorReply(d) ==
    LET D == Device(d)
    IN  [info |-> [connector_type |-> D.connector_type,
                   connector_type_id |-> D.connector_type_id,
                   connection |-> D.connection,
                   mm_width |-> D.mm_width, mm_height |-> D.mm_height,
                   encoder_id |-> D.encoder_id],
         encoders |-> Fill(D.conn_encoders, 0), enc_len |-> Shrunk(D.conn_encoders),
         properties |-> Fill(D.props, 0), prop_len |-> Shrunk(D.props),
         prop_values |-> Fill(D.prop_values, 0), pval_len |-> Shrunk(D.prop_values),
         modes |-> Fill(D.modes, DefaultModeinfo), mode_len |-> Shrunk(D.modes)]

\* ------------------------------------------------------- util and handles
\* SmallBuffer::new and its as_ref(): the occupied prefix of the array
SmallBufferNew(data, len) == [data |-> data, len |-> len]

AsRef(buf) == SubSeq(buf.data, 1, buf.len)

\* a handle of one resource kind wrapping a raw u32
HandleFrom(kind, raw) == [kind |-> kind, raw |-> raw]

\* mem::transmute of a [u32; 32] to an array of handles of one kind
TransmuteHandles(kind, arr) == [i \in DOMAIN arr |-> HandleFrom(kind, arr[i])]

\* handle.into(): the raw u32 of a handle
Raw(h) == h.raw

Raws(hs) == [i \in DOMAIN hs |-> Raw(hs[i])]

\* connector::State::from
ConnectorStateFrom(n) ==
    CASE n = 1 -> "Connected" [] n = 2 -> "Disconnected" [] OTHER -> "Unknown"

\* connector::Type::from
ConnectorTypeFrom(n) ==
    CASE n = 1 -> "VGA" [] n = 10 -> "DisplayPort" [] n = 11 -> "HDMIA"
      [] OTHER -> "Unknown"

\* ------------------------------------------------ control::Device queries
\* the record a call leaves behind: what was asked, what went to the control
\* channel and came back, and what the call returned
Returned(op, args, reqs, request, reply, outcome, err, value) ==
    [op |-> op, args |-> args, reqs |-> reqs, request |-> request,
     reply |-> reply, outcome |-> outcome, err |-> err, value |-> value,
     seen |-> dev]

\* a variant that gives the CRTC buffer the framebuffers' length
ResourceHandlesNew_CrtcLenFromFbs(reply) ==
    [fbs |-> SmallBufferNew(TransmuteHandles("framebuffer", reply.fbs), reply.fb_len),
     crtcs |-> SmallBufferNew(TransmuteHandles("crtc", reply.crtcs), reply.fb_len),
     connectors |->
        SmallBufferNew(TransmuteHandles("connector", reply.connectors), reply.conn_len),
     encoders |->
        SmallBufferNew(TransmuteHandles("encoder", reply.encoders), reply.enc_len),
     width |-> <<reply.ffi_card.min_width, reply.ffi_card.max_width>>,
     height |-> <<reply.ffi_card.min_height, reply.ffi_card.max_height>>]

\* a variant that gives the connector buffer the encoders' length
ResourceHandlesNew_ConnLenFromEnc(reply) ==
    [fbs |-> SmallBufferNew(TransmuteHandles("framebuffer", reply.fbs), reply.fb_len),
     crtcs |-> SmallBufferNew(TransmuteHandles("crtc", reply.crtcs), reply.crtc_len),
     connectors |->
        SmallBufferNew(TransmuteHandles("connector", reply.connectors), reply.enc_len),
     encoders |->
        SmallBufferNew(TransmuteHandles("encoder", reply.encoders), reply.enc_len),
     width |-> <<reply.ffi_card.min_width, reply.ffi_card.max_width>>,
     height |-> <<reply.ffi_card.min_height, reply.ffi_card.max_height>>]

\* control/mod.rs:89-98
ResourceHandlesNew(reply) ==
    [fbs |-> SmallBufferNew(TransmuteHandles("framebuffer", reply.fbs), reply.fb_len),
     crtcs |-> SmallBufferNew(TransmuteHandles("crtc", reply.crtcs), reply.crtc_len),
     connectors |->
        SmallBufferNew(TransmuteHandles("connector", reply.connectors), reply.conn_len),
     encoders |->
        SmallBufferNew(TransmuteHandles("encoder", reply.encoders), reply.enc_len),
     width |-> <<reply.ffi_card.min_width, reply.ffi_card.max_width>>,
     height |-> <<reply.ffi_card.min_height, reply.ffi_card.max_height>>]

\* control/mod.rs:214-234
Connectors(res) == AsRef(res.connectors)

Encoders(res) == AsRef(res.encoders)

Crtcs(res) == AsRef(res.crtcs)

Framebuffers(res) == AsRef(res.fbs)

\* a variant that hands out the handles of an earlier successful call again
\* instead of asking the control channel
ResourceHandles_Cached ==
    LET req == [kind |-> "get_resources"]
    IN  /\ calls < MaxCalls
        /\ calls' = calls + 1
        /\ UNCHANGED <<dev, held>>
        /\ IF last.op = "resource_handles" /\ last.outcome = "ok"
           THEN /\ invoked' = invoked
                /\ last' = Returned("resource_handles", <<>>, 0, NoRequest, NoReply,
                                    "ok", NoValue, last.value)
           ELSE /\ invoked' = invoked + 1
                /\ \/ \E e \in Errnos :
                        last' = Returned("resource_handles", <<>>, 1, req,
                                         ErrReply(e),
                                         "err", SystemErrorFrom(e), NoValue)
                   \/ LET reply == GetResourcesReply(dev)
                      IN  last' = Returned("resource_handles", <<>>, 1, req,
                                           OkReply(reply),
                                           "ok", NoValue, ResourceHandlesNew(reply))

\* control/mod.rs:59-101
ResourceHandles ==
    LET req == [kind |-> "get_resources"]
    IN  /\ calls < MaxCalls
        /\ calls' = calls + 1
        /\ invoked' = invoked + 1
        /\ UNCHANGED <<dev, held>>
        /\ \/ \E e \in Errnos :
                last' = Returned("resource_handles", <<>>, 1, req,
                                 ErrReply(e),
                                 "err", SystemErrorFrom(e), NoValue)
           \/ LET reply == GetResourcesReply(dev)
              IN  last' = Returned("resource_handles", <<>>, 1, req, OkReply(reply),
                                   "ok", NoValue, ResourceHandlesNew(reply))

\* control/mod.rs:116-120
PlaneResourceHandlesNew(reply) ==
    [planes |-> SmallBufferNew(TransmuteHandles("plane", reply.planes), reply.len)]

\* control/mod.rs:245-247
Planes(res) == AsRef(res.planes)

\* control/mod.rs:104-123
PlaneHandles ==
    LET req == [kind |-> "get_plane_resources"]
    IN  /\ calls < MaxCalls
        /\ calls' = calls + 1
        /\ invoked' = invoked + 1
        /\ UNCHANGED <<dev, held>>
        /\ \/ \E e \in Errnos :
                last' = Returned("plane_handles", <<>>, 1, req,
                                 ErrReply(e),
                                 "err", SystemErrorFrom(e), NoValue)
           \/ LET reply == GetPlaneResourcesReply(dev)
              IN  last' = Returned("plane_handles", <<>>, 1, req, OkReply(reply),
                                   "ok", NoValue, PlaneResourceHandlesNew(reply))

\* a variant that wraps the encoder field without looking for the sentinel
CurrEnc_NoSentinel(encoder_id) == Some(HandleFrom("encoder", encoder_id))

\* control/mod.rs:168-171
CurrEnc(encoder_id) ==
    IF encoder_id = 0 THEN None ELSE Some(HandleFrom("encoder", encoder_id))

\* control/mod.rs:156-173
ConnectorInfoNew(handle, reply) ==
    [handle |-> handle,
     conn_type |-> ConnectorTypeFrom(reply.info.connector_type),
     conn_type_id |-> reply.info.connector_type_id,
     connection |-> ConnectorStateFrom(reply.info.connection),
     size |-> <<reply.info.mm_width, reply.info.mm_height>>,
     props |-> SmallBufferNew(TransmuteHandles("property", reply.properties),
                              reply.prop_len),
     pvals |-> SmallBufferNew(reply.prop_values, reply.pval_len),
     encoders |-> SmallBufferNew(TransmuteHandles("encoder", reply.encoders),
                                 reply.enc_len),
     modes |-> SmallBufferNew(reply.modes, reply.mode_len),
     curr_enc |-> CurrEnc(reply.info.encoder_id)]

\* control/mod.rs:126-176
GetConnector(handle) ==
    LET req == [kind |-> "get_connector", connector_id |-> Raw(handle)]
        args == [handle |-> handle]
    IN  /\ calls < MaxCalls
        /\ calls' = calls + 1
        /\ invoked' = invoked + 1
        /\ UNCHANGED <<dev, held>>
        /\ IF Raw(handle) \notin Range(Device(dev).connectors)
           THEN last' = Returned("get_connector", args, 1, req,
                                 ErrReply("ENOENT"),
                                 "err", SystemErrorFrom("ENOENT"), NoValue)
           ELSE \/ \E e \in Errnos :
                     last' = Returned("get_connector", args, 1, req,
                                      ErrReply(e),
                                      "err", SystemErrorFrom(e), NoValue)
                \/ LET reply == GetConnectorReply(dev)
                   IN  last' = Returned("get_connector", args, 1, req, OkReply(reply),
                                        "ok", NoValue, ConnectorInfoNew(handle, reply))

\* a handle the scenario device has, one only other devices have, one no
\* device has
HandleInputs(kind, base) == {HandleFrom(kind, base + 1), HandleFrom(kind, base + 3),
                             HandleFrom(kind, base + 99)}

GetConnectorCall == \E h \in HandleInputs("connector", 300) : GetConnector(h)

\* control/mod.rs:179-199: get_encoder, get_crtc, get_framebuffer, get_plane
\* return their Info without a request
GetInfo(op, handle, info) ==
    /\ calls < MaxCalls
    /\ calls' = calls + 1
    /\ invoked' = invoked
    /\ UNCHANGED <<dev, held>>
    /\ last' = Returned(op, [handle |-> handle], 0, NoRequest, NoReply,
                        "ok", NoValue, [kind |-> info])

GetEncoder(handle) == GetInfo("get_encoder", handle, "encoder::Info")

GetCrtc(handle) == GetInfo("get_crtc", handle, "crtc::Info")

GetFramebuffer(handle) == GetInfo("get_framebuffer", handle, "framebuffer::Info")

GetPlane(handle) == GetInfo("get_plane", handle, "plane::Info")

GetEncoderCall == \E h \in HandleInputs("encoder", 400) : GetEncoder(h)

GetCrtcCall == \E h \in HandleInputs("crtc", 200) : GetCrtc(h)

GetFramebufferCall == \E h \in HandleInputs("framebuffer", 100) : GetFramebuffer(h)

GetPlaneCall == \E h \in HandleInputs("plane", 500) : GetPlane(h)

\* the kernel adds, removes or reorders resources between two calls
DeviceChange ==
    /\ \E d \in DevIds \ {dev} : dev' = d
    /\ UNCHANGED <<last, calls, invoked, held>>

\* the caller keeps the handle set an enumeration call returned, to compare
\* it with the result of a later call
Keep ==
    /\ last.op \in {"resource_handles", "plane_handles"}
    /\ last.outcome = "ok"
    /\ held # last
    /\ held' = last
    /\ UNCHANGED <<dev, last, calls, invoked>>

\* SmallBuffer's PartialEq and Hash: over the occupied prefix
SmallBufferEq(a, b) == AsRef(a) = AsRef(b)

SmallBufferHash(a) == AsRef(a)

\* a variant that compares the size ranges and not the buffers
ResourceHandlesEq_SizesOnly(a, b) ==
    /\ a.width = b.width
    /\ a.height = b.height

\* control/mod.rs:202, #[derive(PartialEq, Eq)]: field by field
ResourceHandlesEq(a, b) ==
    /\ SmallBufferEq(a.fbs, b.fbs)
    /\ SmallBufferEq(a.crtcs, b.crtcs)
    /\ SmallBufferEq(a.connectors, b.connectors)
    /\ SmallBufferEq(a.encoders, b.encoders)
    /\ a.width = b.width
    /\ a.height = b.height

\* control/mod.rs:202, #[derive(Hash)]: what the fields feed to the hasher
ResourceHandlesHash(a) ==
    <<SmallBufferHash(a.fbs), SmallBufferHash(a.crtcs),
      SmallBufferHash(a.connectors), SmallBufferHash(a.encoders),
      a.width, a.height>>

\* control/mod.rs:236
PlaneResourceHandlesEq(a, b) == SmallBufferEq(a.planes, b.planes)

PlaneResourceHandlesHash(a) == <<SmallBufferHash(a.planes)>>

\* the handles of a kind the device in configuration d has
DeviceHandles(d, kind) ==
    CASE kind = "encoder" -> Range(Device(d).encoders)
      [] kind = "crtc" -> Range(Device(d).crtcs)
      [] kind = "framebuffer" -> Range(Device(d).fbs)
      [] kind = "plane" -> Range(Device(d).planes)
      [] OTHER -> Range(Device(d).connectors)

\* ---------------------------------------------------------- specifications
NoCall == [op |-> "none"]

Init ==
    /\ dev \in DevIds
    /\ last = NoCall
    /\ calls = 0
    /\ invoked = 0
    /\ held = NoCall

InitVblank ==
    /\ dev = "scenario"
    /\ last = NoCall
    /\ calls = 0
    /\ invoked = 0
    /\ held = NoCall

NextVblank == WaitVblankCall

NextControl ==
    \/ ResourceHandles
    \/ PlaneHandles
    \/ GetConnectorCall
    \/ GetEncoderCall
    \/ GetCrtcCall
    \/ GetFramebufferCall
    \/ GetPlaneCall
    \/ DeviceChange

Next == NextVblank \/ NextControl

NextEnum ==
    \/ ResourceHandles
    \/ PlaneHandles
    \/ GetConnectorCall
    \/ DeviceChange
    \/ Keep

\* every operation of both traits, on a device that changes
Spec == Init /\ [][Next]_vars

\* the vblank wait alone
SpecVblank == InitVblank /\ [][NextVblank]_vars

\* the mode-setting queries alone, on a device that changes
SpecControl == Init /\ [][NextControl]_vars

\* the enumeration queries and the connector query alone, on a device that
\* changes
SpecEnum == Init /\ [][NextEnum]_vars

\* ------------------------------------------------------------ properties
IsCall(op) == last.op = op

\* the bits of the type word that carry the direction and the behaviour flags
ReservedFlagBits == DRM_VBLANK_RELATIVE \cup EVENT \cup NEXT_ON_MISS

\* the CRTC indices 0..31, whose shifted value lies inside the 0x3e field
FieldIndices == {Bits(n) : n \in 0 .. 31}

\* C1: a wait_vblank whose crtc_index, shifted left by one, has a bit in
\* common with the direction bit or a behaviour flag fails with EINVAL and
\* sends nothing to the control channel.
C1_CollidingIndexRejected ==
    (IsCall("wait_vblank")
        /\ Shl(last.args.crtc_index, 1) \cap ReservedFlagBits # {})
    => /\ last.outcome = "err"
       /\ last.err.errno = "EINVAL"
       /\ last.reqs = 0

\* C2: a wait_vblank with crtc_index in 0..31 is not rejected locally: one
\* request goes out, its type word is direction | (crtc_index << 1) | flags,
\* and the sequence and user_data are passed through.
C2_FieldIndexEncoded ==
    (IsCall("wait_vblank") /\ last.args.crtc_index \in FieldIndices)
    => /\ last.reqs = 1
       /\ last.request.kind = "wait_vblank"
       /\ last.request.type_ =
             (IF last.args.target.kind = "Relative" THEN {0} ELSE {})
                \cup Shl(last.args.crtc_index, 1) \cup UNION last.args.flags
       /\ last.request.sequence = last.args.target.n
       /\ last.request.signal = last.args.user_data

InfoQueries == {"get_encoder", "get_crtc", "get_framebuffer", "get_plane"}

\* C3: get_encoder, get_crtc, get_framebuffer and get_plane each make one
\* round trip keyed by the handle and fail for a handle the device does not
\* have.
C3_InfoQueryRoundTrip ==
    (last.op \in InfoQueries)
    => /\ last.reqs = 1
       /\ (Raw(last.args.handle) \notin DeviceHandles(last.seen, last.args.handle.kind)
             => last.outcome = "err")

PropagatingQueries == {"resource_handles", "plane_handles", "get_connector", "wait_vblank"}

\* C4: when the control channel fails a request of resource_handles,
\* plane_handles, get_connector or wait_vblank, the call returns a failure
\* with the channel's errno, after exactly one request and with no value.
C4_ChannelFailurePropagates ==
    (last.op \in PropagatingQueries /\ last.reply.kind = "err")
    => /\ last.outcome = "err"
       /\ last.err.errno = last.reply.errno
       /\ last.reqs = 1
       /\ last.value = NoValue

C4_Witness ==
    /\ IsCall("resource_handles")
    /\ last.reply = ErrReply("ENODEV")
    /\ last.outcome = "err"
    /\ invoked = 1

\* C5: a successful resource_handles returns, for every category of which
\* the device has at most 32 handles, exactly the device's handles in the
\* device's order, and the device's (min, max) width and height.
C5_HandlesAsReported ==
    (IsCall("resource_handles") /\ last.outcome = "ok")
    => LET D == Device(last.seen)
           r == last.value
       IN  /\ Len(D.fbs) <= 32 => Raws(Framebuffers(r)) = D.fbs
           /\ Len(D.crtcs) <= 32 => Raws(Crtcs(r)) = D.crtcs
           /\ Len(D.connectors) <= 32 => Raws(Connectors(r)) = D.connectors
           /\ Len(D.encoders) <= 32 => Raws(Encoders(r)) = D.encoders
           /\ r.width = <<D.min_width, D.max_width>>
           /\ r.height = <<D.min_height, D.max_height>>

C5_Witness ==
    /\ IsCall("resource_handles")
    /\ last.outcome = "ok"
    /\ Len(Crtcs(last.value)) = 3
    /\ Len(Connectors(last.value)) = 2
    /\ Len(Encoders(last.value)) = 1
    /\ Len(Framebuffers(last.value)) = 0

\* a list of exactly 32 handles, each one of the reported ones
Truncated(handles, reported) ==
    /\ Len(handles) = 32
    /\ Range(Raws(handles)) \subseteq Range(reported)

\* C6: when the device has more than 32 handles of a category, the call
\* still succeeds whenever the channel does, that category's list has
\* exactly 32 entries, each a handle of the device, and the categories with
\* at most 32 handles are as the device reported them.
C6_TruncationIsNotAnError ==
    /\ (IsCall("resource_handles") /\ last.reply.kind = "ok")
       => LET D == Device(last.seen)
              r == last.value
          IN  /\ last.outcome = "ok"
              /\ IF Len(D.fbs) > 32 THEN Truncated(Framebuffers(r), D.fbs)
                 ELSE Len(Framebuffers(r)) = Len(D.fbs)
              /\ IF Len(D.crtcs) > 32 THEN Truncated(Crtcs(r), D.crtcs)
                 ELSE Len(Crtcs(r)) = Len(D.crtcs)
              /\ IF Len(D.connectors) > 32 THEN Truncated(Connectors(r), D.connectors)
                 ELSE Len(Connectors(r)) = Len(D.connectors)
              /\ IF Len(D.encoders) > 32 THEN Truncated(Encoders(r), D.encoders)
                 ELSE Len(Encoders(r)) = Len(D.encoders)
    /\ (IsCall("plane_handles") /\ last.reply.kind = "ok")
       => /\ last.outcome = "ok"
          /\ IF Len(Device(last.seen).planes) > 32
             THEN Truncated(Planes(last.value), Device(last.seen).planes)
             ELSE Len(Planes(last.value)) = Len(Device(last.seen).planes)

C6_Witness ==
    /\ IsCall("resource_handles")
    /\ last.outcome = "ok"
    /\ Len(Device(last.seen).connectors) = 40
    /\ Len(Connectors(last.value)) = 32
    /\ Len(Encoders(last.value)) = 1

\* C7: in a successful get_connector the bound encoder is None exactly when
\* the kernel's encoder field is 0, and for a non-zero field v it is an
\* encoder handle of value v.
C7_BoundEncoderSentinel ==
    (IsCall("get_connector") /\ last.outcome = "ok")
    => LET v == Device(last.seen).encoder_id
           e == last.value.curr_enc
       IN  /\ (e.some = FALSE) <=> (v = 0)
           /\ v # 0 => (e.some /\ e.val.kind = "encoder" /\ Raw(e.val) = v)

C7_Witness ==
    /\ IsCall("get_connector")
    /\ last.outcome = "ok"
    /\ Device(last.seen).encoder_id = 0
    /\ last.value.curr_enc = None

\* C8: for a successful reply with seconds s >= 0 and microseconds u in
\* 0..999999, time() is None exactly when s = 0 and u = 0, and otherwise the
\* duration of s seconds and u * 1000 nanoseconds.
C8_TimeDecoding ==
    (IsCall("wait_vblank") /\ last.outcome = "ok"
        /\ last.reply.body.tval_sec >= 0
        /\ last.reply.body.tval_usec \in 0 .. 999999)
    => LET s == last.reply.body.tval_sec
           u == last.reply.body.tval_usec
           t == Time(last.value)
       IN  /\ (t.some = FALSE) <=> (s = 0 /\ u = 0)
           /\ ~(s = 0 /\ u = 0) => (t.some /\ t.val = [secs |-> s, nanos |-> u * 1000])

C8_Witness ==
    /\ IsCall("wait_vblank")
    /\ last.outcome = "ok"
    /\ last.reply.body.tval_sec = 0
    /\ last.reply.body.tval_usec = 500
    /\ Time(last.value) = Some([secs |-> 0, nanos |-> 500000])

\* C9: a successful wait_vblank with the EVENT flag returns a reply whose
\* time() is None.
C9_EventHasNoTime ==
    (IsCall("wait_vblank") /\ last.outcome = "ok" /\ EVENT \in last.args.flags)
    => Time(last.value) = None

\* C10: the property-handle list and the property-value list of a connector
\* Info have the same occupied length.
C10_PropsAligned ==
    (IsCall("get_connector") /\ last.outcome = "ok")
    => Len(AsRef(last.value.props)) = Len(AsRef(last.value.pvals))

EnumQueries == {"resource_handles", "plane_handles", "get_connector"}

\* the part of a reported list that fits the 32 receive slots
Reported(list) == SubSeq(list, 1, IF Len(list) < 32 THEN Len(list) ELSE 32)

\* the value a successful query returned shows the device in configuration d
Shows(call, d) ==
    LET D == Device(d)
        v == call.value
    IN  CASE call.op = "resource_handles" ->
                /\ Raws(Framebuffers(v)) = Reported(D.fbs)
                /\ Raws(Crtcs(v)) = Reported(D.crtcs)
                /\ Raws(Connectors(v)) = Reported(D.connectors)
                /\ Raws(Encoders(v)) = Reported(D.encoders)
                /\ v.width = <<D.min_width, D.max_width>>
                /\ v.height = <<D.min_height, D.max_height>>
          [] call.op = "plane_handles" ->
                Raws(Planes(v)) = Reported(D.planes)
          [] OTHER ->
                /\ v.handle = call.args.handle
                /\ v.conn_type_id = D.connector_type_id
                /\ v.size = <<D.mm_width, D.mm_height>>
                /\ Raws(AsRef(v.props)) = Reported(D.props)
                /\ AsRef(v.pvals) = Reported(D.prop_values)
                /\ Raws(AsRef(v.encoders)) = Reported(D.conn_encoders)
                /\ AsRef(v.modes) = Reported(D.modes)
                /\ v.curr_enc.some = (D.encoder_id # 0)

\* C11: nothing is cached across calls. Every resource_handles,
\* plane_handles and get_connector call sends its own request, so that the
\* requests the channel received equal the calls made, and a successful call
\* returns what the device holds at the moment of that call.
C11_NoCaching ==
    /\ [](invoked = calls)
    /\ [][(calls' = calls + 1 /\ last'.op \in EnumQueries)
            => /\ invoked' = invoked + 1
               /\ last'.reqs = 1
               /\ last'.outcome = "ok" => Shows(last', dev)]_vars

C11_Witness ==
    /\ calls = 2
    /\ invoked = 2
    /\ IsCall("resource_handles")
    /\ last.outcome = "ok"
    /\ dev = "large"
    /\ Len(Connectors(last.value)) = 32

\* a buffer with other contents in its unused tail slots
Scrambled(buf) ==
    [buf EXCEPT !.data = [i \in DOMAIN buf.data |->
                            IF i > buf.len THEN HandleFrom("stale", 77)
                            ELSE buf.data[i]]]

ScrambledHandles(r) ==
    [r EXCEPT !.fbs = Scrambled(r.fbs), !.crtcs = Scrambled(r.crtcs),
              !.connectors = Scrambled(r.connectors),
              !.encoders = Scrambled(r.encoders)]

\* the occupied part of a buffer, read off its fields
Occupied(buf) == [i \in 1 .. buf.len |-> buf.data[i]]

\* two device configurations report the same resources
SameResources(d, e) ==
    /\ Device(d).fbs = Device(e).fbs
    /\ Device(d).crtcs = Device(e).crtcs
    /\ Device(d).connectors = Device(e).connectors
    /\ Device(d).encoders = Device(e).encoders
    /\ Device(d).min_width = Device(e).min_width
    /\ Device(d).max_width = Device(e).max_width
    /\ Device(d).min_height = Device(e).min_height
    /\ Device(d).max_height = Device(e).max_height

\* C12: two handle sets that enumeration calls returned after seeing the
\* same reported lists and size ranges are equal and hash alike, two whose
\* occupied prefixes differ are unequal, and the contents of the unused tail
\* slots change neither.
C12_EqualityOverPrefixes ==
    /\ (held.op = "resource_handles" /\ IsCall("resource_handles")
            /\ last.outcome = "ok")
       => LET a == held.value
              b == last.value
          IN  /\ SameResources(held.seen, last.seen)
                    => /\ ResourceHandlesEq(a, b)
                       /\ ResourceHandlesHash(a) = ResourceHandlesHash(b)
              /\ (\/ Occupied(a.fbs) # Occupied(b.fbs)
                  \/ Occupied(a.crtcs) # Occupied(b.crtcs)
                  \/ Occupied(a.connectors) # Occupied(b.connectors)
                  \/ Occupied(a.encoders) # Occupied(b.encoders))
                    => ~ResourceHandlesEq(a, b)
              /\ ResourceHandlesEq(a, ScrambledHandles(b)) = ResourceHandlesEq(a, b)
              /\ ResourceHandlesHash(ScrambledHandles(b)) = ResourceHandlesHash(b)
    /\ (held.op = "plane_handles" /\ IsCall("plane_handles")
            /\ last.outcome = "ok")
       => LET a == held.value
              b == last.value
              c == [planes |-> Scrambled(b.planes)]
          IN  /\ Device(held.seen).planes = Device(last.seen).planes
                    => /\ PlaneResourceHandlesEq(a, b)
                       /\ PlaneResourceHandlesHash(a) = PlaneResourceHandlesHash(b)
              /\ Occupied(a.planes) # Occupied(b.planes)
                    => ~PlaneResourceHandlesEq(a, b)
              /\ PlaneResourceHandlesEq(a, c) = PlaneResourceHandlesEq(a, b)
              /\ PlaneResourceHandlesHash(c) = PlaneResourceHandlesHash(b)

C12_Witness ==
    /\ held.op = "resource_handles"
    /\ IsCall("resource_handles")
    /\ last.outcome = "ok"
    /\ held.seen = "scenario"
    /\ last.seen = "scenario"
    /\ calls = 2
    /\ ResourceHandlesEq(held.value, last.value)
    /\ ~ResourceHandlesEq(held.value, ResourceHandlesNew(GetResourcesReply("skewed")))

\* the direction (absolute or relative) bit of a type word
DirectionBits(w) == w \cap DRM_VBLANK_RELATIVE

\* C13 as stated: wait_vblank returns a reply exactly when the direction
\* bits of the channel's reply equal those of the request, whatever the
\* flag and CRTC bits are, and otherwise halts on the assertion.
C13_DirectionBitsCompared ==
    (IsCall("wait_vblank") /\ last.reply.kind = "ok")
    => /\ (last.outcome = "ok")
            <=> (DirectionBits(last.reply.body.type_) = DirectionBits(last.request.type_))
       /\ last.outcome # "ok" => last.outcome = "panic"

\* C13 as amended: wait_vblank returns a reply exactly when the whole type
\* word of the channel's reply equals the request's type word, with the
\* direction bit cleared when the target is Relative (the reply is always
\* absolute, and the flag and CRTC bits are compared too); otherwise it halts
\* on the assertion and returns neither a reply nor an error.
C13_ReplyIsAbsoluteRequest ==
    (IsCall("wait_vblank") /\ last.reply.kind = "ok")
    => LET expected == IF last.args.target.kind = "Relative"
                       THEN last.request.type_ \ {0}
                       ELSE last.request.type_
       IN  /\ (last.outcome = "ok") <=> (last.reply.body.type_ = expected)
           /\ last.outcome # "ok"
                => /\ last.outcome = "panic"
                   /\ last.value = NoValue
                   /\ last.err = NoValue

C13_Witness ==
    /\ IsCall("wait_vblank")
    /\ last.args.target.kind = "Relative"
    /\ last.args.flags = {EVENT}
    /\ last.reply.kind = "ok"
    /\ last.reply.body.type_ = EVENT
    /\ last.outcome = "ok"

\* a type word shifted right by k
Shr(w, k) == {b - k : b \in w} \cap WordBits

\* C14: a request that wait_vblank issues decodes back to its inputs: the
\* 0x3e field shifted right by one is crtc_index, the direction bit is the
\* target's, and the behaviour-flag bits are exactly the flags given.
C14_RequestDecodesToInputs ==
    (IsCall("wait_vblank") /\ last.reqs = 1)
    => /\ Shr(last.request.type_ \cap {1, 2, 3, 4, 5}, 1) = last.args.crtc_index
       /\ (0 \in last.request.type_) <=> (last.args.target.kind = "Relative")
       /\ last.request.type_ \cap (EVENT \cup NEXT_ON_MISS) = UNION last.args.flags
====
